---- MODULE Spec2Model ----
(***************************************************************************)
(* A state-machine model of the TSL dino game:                             *)
(*   src/src/main.ts                     game state, restart, frame loop   *)
(*   src/unnamed/part_017                T-Rex controls (tRexControls.ts)  *)
(*   src/unnamed/part_016                high score storage (highScore.ts) *)
(*   src/src/collision/collisionDetection.ts   readback and pixel scan     *)
(*   src/unnamed/part_018                night mode (pure function)        *)
(*   src/src/tsl/tslBackground.ts        fragment program (pure function)  *)
(*   src/src/spritePterodactyl.ts        obstacle of a segment             *)
(*   src/unnamed/part_003                sampleSprite (pure function)      *)
(*                                                                         *)
(* Numbers are fixed point, so that every product of the code is exact:    *)
(*   time            1e-2 s   (delta, elapsedTime, lastCollisionCheckTime) *)
(*   game speed      1e-4 u/s                                              *)
(*   acceleration    1e-2 u/s^2                                            *)
(*   distance        1e-6 u                                                *)
(*   jump velocity   1e-2 u/s                                              *)
(*   jump offset     1e-4 u                                                *)
(*   colour channel  1/25500  (a byte b read back is b/255 = 100*b)        *)
(***************************************************************************)
EXTENDS Integers, Sequences, FiniteSets, TLC

VARIABLES
    options,                \* main.ts:72  the game state object
    uniforms,               \* main.ts:103 the shader uniforms
    controls,               \* part_017:14 module state of the T-Rex controls
    distanceRan,            \* main.ts:275 module-level distance counter
    lastCollisionCheckTime, \* main.ts:276
    elapsedTime,            \* main.ts:274 clock.elapsedTime
    localStorage,           \* part_016:6  the string stored under HIGH_SCORE_KEY
    readbacks,              \* detectCollision promises not yet resolved
    lastOp,                 \* trace: the handler that ran last, and the state it found
    probe                   \* input and result of the pure function under check

vars == <<options, uniforms, controls, distanceRan, lastCollisionCheckTime,
          elapsedTime, localStorage, readbacks, lastOp, probe>>

(***************************************************************************)
(* Bounds of the model.                                                    *)
(***************************************************************************)
MaxElapsed == 20
DeltaShort == 4
DeltaLong == 9
MaxInFlight == 2
MaxStoredHi == 12

Deltas == {DeltaShort, DeltaLong}

(***************************************************************************)
(* Program constants.                                                      *)
(***************************************************************************)
WAITING == 0
RUNNING == 1
JUMPING == 2
DUCKING == 3
CRASHED == 4

GAME_SPEED_START == 38000
GAME_SPEED_MAX == 78000
GAME_SPEED_ACCELERATION_DEFAULT == 1
COLLISION_DETECTION_INTERVAL == 5
ScoreCoefficientTenths == 18

INITIAL_JUMP_VELOCITY == 400
GRAVITY == -9
DROP_VELOCITY == -150
SPEED_DROP_VELOCITY == -200
GROUND_Y == 0
MIN_JUMP_HEIGHT == 4000
MAX_JUMP_HEIGHT == 35000

COLLISION_COLOR_DETECTION_TOLERANCE == 255
DefaultCollisionByte == 68

Abs(x) == IF x < 0 THEN -x ELSE x

(***************************************************************************)
(* High score storage: localStorage holds a decimal string or nothing.     *)
(* A string is a sequence of digits; <<>> stands for "no item" (null),     *)
(* which getHighScore treats like the empty string.                        *)
(***************************************************************************)
RECURSIVE toString(_)
toString(n) ==
    IF n < 10 THEN <<n>> ELSE Append(toString(n \div 10), n % 10)

RECURSIVE parseInt(_)
parseInt(s) ==
    IF Len(s) = 1 THEN s[1]
    ELSE 10 * parseInt(SubSeq(s, 1, Len(s) - 1)) + s[Len(s)]

getHighScore(stored) ==
    IF stored # <<>> THEN parseInt(stored) ELSE 0

setHighScore(score) == toString(score)

(***************************************************************************)
(* The world a handler reads and writes.                                   *)
(***************************************************************************)
World ==
    [o |-> options, u |-> uniforms, c |-> controls, d |-> distanceRan,
     ls |-> localStorage]

isGameOver(w) == w.o.trexState = CRASHED
\* Mutant: a crashed game still counts as running.
isGameRunning_notWaiting(w) == w.o.trexState # WAITING

isGameRunning(w) == w.o.trexState # WAITING /\ w.o.trexState # CRASHED

Score(d) == (d * ScoreCoefficientTenths) \div 10000000

(***************************************************************************)
(* main.ts: the state-change callback handed to initTRexControls.          *)
(***************************************************************************)
\* Mutant: the callback forgets the uniform.
onStateChange_noUniform(w, newState) ==
    [w EXCEPT !.o.trexState = newState]

onStateChange(w, newState) ==
    [w EXCEPT !.o.trexState = newState, !.u.uniformTRexState = newState]

\* Mutant: the restart leaves gameSpeed as the crash set it.
gameRestart_keepSpeed(w) ==
    [w EXCEPT !.o.distanceRan = 0,
              !.o.score = 0,
              !.o.jumpOffsetY = 0,
              !.o.trexState = RUNNING,
              !.u.uniformDistanceRan = 0,
              !.u.uniformScore = 0,
              !.u.uniformJumpOffsetY = 0,
              !.u.uniformTRexState = RUNNING,
              !.d = 0]

gameRestart(w) ==
    [w EXCEPT !.o.distanceRan = 0,
              !.o.gameSpeed = GAME_SPEED_START,
              !.o.score = 0,
              !.o.jumpOffsetY = 0,
              !.o.trexState = RUNNING,
              !.u.uniformDistanceRan = 0,
              !.u.uniformScore = 0,
              !.u.uniformJumpOffsetY = 0,
              !.u.uniformTRexState = RUNNING,
              !.d = 0]

onMouseClick(w, hit) ==
    IF ~isGameOver(w) THEN w
    ELSE IF hit THEN gameRestart(w) ELSE w

(***************************************************************************)
(* part_017: the T-Rex controls.                                           *)
(***************************************************************************)
\* Mutant: a jump can be started in the air.
startJump_double(w) ==
    onStateChange([w EXCEPT !.c.jumping = TRUE,
                            !.c.jumpVelocity = INITIAL_JUMP_VELOCITY,
                            !.c.reachedMinHeight = FALSE,
                            !.c.speedDrop = FALSE],
                  JUMPING)

startJump(w) ==
    IF w.c.jumping THEN w
    ELSE onStateChange([w EXCEPT !.c.jumping = TRUE,
                                 !.c.jumpVelocity = INITIAL_JUMP_VELOCITY,
                                 !.c.reachedMinHeight = FALSE,
                                 !.c.speedDrop = FALSE],
                       JUMPING)

endJump(w) ==
    IF w.c.reachedMinHeight /\ w.c.jumpVelocity > DROP_VELOCITY
    THEN [w EXCEPT !.c.jumpVelocity = DROP_VELOCITY]
    ELSE w

setSpeedDrop(w) ==
    [w EXCEPT !.c.speedDrop = TRUE, !.c.jumpVelocity = SPEED_DROP_VELOCITY]

setDuck(w, isDucking) ==
    IF isDucking /\ ~w.c.ducking
    THEN onStateChange([w EXCEPT !.c.ducking = TRUE], DUCKING)
    ELSE IF ~isDucking /\ w.c.ducking
    THEN onStateChange([w EXCEPT !.c.ducking = FALSE], RUNNING)
    ELSE w

resetTRexControls(w) ==
    [w EXCEPT !.c = [jumping |-> FALSE, ducking |-> FALSE, jumpVelocity |-> 0,
                     reachedMinHeight |-> FALSE, speedDrop |-> FALSE,
                     jumpOffsetY |-> 0]]

\* Mutant: the key that starts the game also jumps.
onKeyDownJump_jumpOnStart(w) ==
    IF w.o.trexState = CRASHED THEN gameRestart(resetTRexControls(w))
    ELSE IF w.o.trexState = WAITING
    THEN startJump(onStateChange(w, RUNNING))
    ELSE startJump(w)

onKeyDownJump(w) ==
    IF w.o.trexState = CRASHED THEN gameRestart(resetTRexControls(w))
    ELSE IF w.o.trexState = WAITING THEN onStateChange(w, RUNNING)
    ELSE startJump(w)

onKeyDownDuck(w) ==
    IF w.c.jumping THEN setSpeedDrop(w)
    ELSE IF ~w.c.jumping /\ ~w.c.ducking THEN setDuck(w, TRUE)
    ELSE w

onKeyUpJump(w) ==
    IF w.c.jumping THEN endJump(w) ELSE w

onKeyUpDuck(w) ==
    setDuck([w EXCEPT !.c.speedDrop = FALSE], FALSE)

\* Mutant: landing leaves jumpOffsetY where the last step put it.
landing_noClamp(w) ==
    LET g == [w EXCEPT !.c.jumping = FALSE,
                       !.c.jumpVelocity = 0,
                       !.c.reachedMinHeight = FALSE]
    IN  IF g.c.speedDrop
        THEN setDuck([g EXCEPT !.c.speedDrop = FALSE], TRUE)
        ELSE onStateChange(g, RUNNING)

\* The landing branch of controlsTRex (part_017:159-172).
landing(w) ==
    LET g == [w EXCEPT !.c.jumpOffsetY = GROUND_Y,
                       !.c.jumping = FALSE,
                       !.c.jumpVelocity = 0,
                       !.c.reachedMinHeight = FALSE]
    IN  IF g.c.speedDrop
        THEN setDuck([g EXCEPT !.c.speedDrop = FALSE], TRUE)
        ELSE onStateChange(g, RUNNING)

\* controlsTRex returns controls.jumpOffsetY of the world it yields.
controlsTRex(w, dt) ==
    IF ~w.c.jumping THEN w
    ELSE
      LET moved == [w EXCEPT
                      !.c.jumpOffsetY = w.c.jumpOffsetY + w.c.jumpVelocity * dt,
                      !.c.jumpVelocity = w.c.jumpVelocity + GRAVITY * dt]
          minned == IF moved.c.jumpOffsetY > MIN_JUMP_HEIGHT \/ moved.c.speedDrop
                    THEN [moved EXCEPT !.c.reachedMinHeight = TRUE]
                    ELSE moved
          maxed == IF minned.c.jumpOffsetY > MAX_JUMP_HEIGHT \/ minned.c.speedDrop
                   THEN endJump(minned)
                   ELSE minned
      IN  IF maxed.c.jumpOffsetY <= GROUND_Y THEN landing(maxed) ELSE maxed

(***************************************************************************)
(* main.ts: the per-frame update of animate.                               *)
(***************************************************************************)
\* Mutant: the score is taken from the distance before this frame.
updateGame_staleScore(w, dt) ==
    IF ~isGameRunning(w) THEN w
    ELSE
      LET speed == IF w.o.gameSpeed < GAME_SPEED_MAX
                   THEN w.o.gameSpeed + GAME_SPEED_ACCELERATION_DEFAULT * dt
                   ELSE w.o.gameSpeed
          dist == w.d + speed * dt
      IN  [w EXCEPT !.o.gameSpeed = speed,
                    !.d = dist,
                    !.o.distanceRan = dist,
                    !.u.uniformDistanceRan = dist,
                    !.o.score = Score(w.d),
                    !.u.uniformScore = Score(w.d)]

\* main.ts:287-311, the block guarded by isGameRunning().
updateGame(w, dt) ==
    IF ~isGameRunning(w) THEN w
    ELSE
      LET speed == IF w.o.gameSpeed < GAME_SPEED_MAX
                   THEN w.o.gameSpeed + GAME_SPEED_ACCELERATION_DEFAULT * dt
                   ELSE w.o.gameSpeed
          dist == w.d + speed * dt
      IN  [w EXCEPT !.o.gameSpeed = speed,
                    !.d = dist,
                    !.o.distanceRan = dist,
                    !.u.uniformDistanceRan = dist,
                    !.o.score = Score(dist),
                    !.u.uniformScore = Score(dist)]

\* main.ts:314-317, the block guarded by !isGameOver().
updateJump(w, dt) ==
    IF isGameOver(w) THEN w
    ELSE
      LET j == controlsTRex(w, dt)
      IN  [j EXCEPT !.o.jumpOffsetY = j.c.jumpOffsetY,
                    !.u.uniformJumpOffsetY = j.c.jumpOffsetY]

\* Mutant: the gate looks at the interval only.
detectionDue_noStateGate(w, now, last) ==
    now - last > COLLISION_DETECTION_INTERVAL

\* main.ts:320, the gate of a detection cycle.
detectionDue(w, now, last) ==
    isGameRunning(w) /\ now - last > COLLISION_DETECTION_INTERVAL

(***************************************************************************)
(* collisionDetection.ts: the scan of the read-back buffer.  A buffer is a *)
(* sequence of bytes, four per pixel (R, G, B, A); target is the colour's  *)
(* three channels.                                                         *)
(***************************************************************************)
\* Mutant: the blue channel is not compared.
isCollisionColor_noBlue(buf, i, target) ==
    /\ Abs(100 * buf[i] - target[1]) < COLLISION_COLOR_DETECTION_TOLERANCE
    /\ Abs(100 * buf[i + 1] - target[2]) < COLLISION_COLOR_DETECTION_TOLERANCE

isCollisionColor(buf, i, target) ==
    /\ Abs(100 * buf[i] - target[1]) < COLLISION_COLOR_DETECTION_TOLERANCE
    /\ Abs(100 * buf[i + 1] - target[2]) < COLLISION_COLOR_DETECTION_TOLERANCE
    /\ Abs(100 * buf[i + 2] - target[3]) < COLLISION_COLOR_DETECTION_TOLERANCE

\* The loop of lines 152-166, from byte i on (i is 1-based here).
RECURSIVE collisionPixelCount(_, _, _)
collisionPixelCount(buf, i, target) ==
    IF i > Len(buf) THEN 0
    ELSE (IF isCollisionColor(buf, i, target) THEN 1 ELSE 0)
         + collisionPixelCount(buf, i + 4, target)

detectCollision(buf, target) ==
    collisionPixelCount(buf, 1, target) > 0

\* new THREE.Color(options.collisionColor) for '#444444', each channel byte/255.
collisionColor ==
    <<100 * DefaultCollisionByte, 100 * DefaultCollisionByte,
      100 * DefaultCollisionByte>>

\* What the auxiliary render may leave in the readback target: a frame with
\* a pixel of the collision colour, or a frame without one.
AuxFrames ==
    {<<DefaultCollisionByte, DefaultCollisionByte, DefaultCollisionByte, 255>>,
     <<247, 247, 247, 255>>}

\* Mutant: the new high score is shown but never stored.
crashTransition_noPersist(w) ==
    LET h == IF w.o.score > w.o.hiScore
             THEN [w EXCEPT !.o.hiScore = w.o.score,
                            !.u.uniformHiScore = w.o.score]
             ELSE w
    IN  [h EXCEPT !.o.trexState = CRASHED,
                  !.u.uniformTRexState = CRASHED,
                  !.o.gameSpeed = 0]

\* main.ts:324-338, what the continuation does with a collision.
crashTransition(w) ==
    LET h == IF w.o.score > w.o.hiScore
             THEN [w EXCEPT !.o.hiScore = w.o.score,
                            !.u.uniformHiScore = w.o.score,
                            !.ls = setHighScore(w.o.score)]
             ELSE w
    IN  [h EXCEPT !.o.trexState = CRASHED,
                  !.u.uniformTRexState = CRASHED,
                  !.o.gameSpeed = 0]

\* Mutant: the early return on "no collision" is missing.
collisionContinuation_noGuard(w, collision) ==
    crashTransition(w)

\* main.ts:321-339, the continuation of the detectCollision promise.
collisionContinuation(w, collision) ==
    IF ~collision THEN w ELSE crashTransition(w)

\* Mutant: a failed detection cycle is taken for a collision.
catchContinuation_crash(w) == crashTransition(w)

\* main.ts:339, .catch(console.error): a detectCollision promise that was
\* rejected (the auxiliary render threw inside the async function, or the
\* readback promise rejected) is logged and nothing else.
catchContinuation(w) == w

(***************************************************************************)
(* part_018: calculateNightMode.  The score uniform holds the integer that *)
(* Math.floor produced.  smoothstep(e0, e1, x) is t*t*(3 - 2t) with        *)
(* t = clamp((x - e0) / (e1 - e0), 0, 1); both calls have |e1 - e0| = 10,  *)
(* so a value is kept in thousandths and the product of two in 1e-6.  The  *)
(* second call has its edges in falling order (300, 290): the shading      *)
(* languages the node compiles to leave smoothstep undefined when          *)
(* edge0 >= edge1, so its value there is any of SmoothstepOutcomes.        *)
(***************************************************************************)
INVERT_DISTANCE == 700
NIGHT_WINDOW == 300
TRANSITION_DURATION == 10

clamp(x, lo, hi) == IF x < lo THEN lo ELSE IF x > hi THEN hi ELSE x

\* What a build may return for smoothstep with edge0 >= edge1: the Hermite
\* polynomial of the clamped quotient, or either end of the range.
SmoothstepOutcomes == {"hermite", "zero", "one"}

\* In units of 1 / |e1 - e0|^3; u is the outcome taken where the result is
\* undefined.
smoothstep(e0, e1, x, u) ==
    LET den == Abs(e1 - e0)
        num == IF e1 >= e0 THEN x - e0 ELSE e0 - x
        t == clamp(num, 0, den)
        hermite == t * t * (3 * den - 2 * t)
    IN  IF e0 < e1 \/ u = "hermite" THEN hermite
        ELSE IF u = "zero" THEN 0
        ELSE den * den * den

\* The floored modulo of TSL's mod(x, y), y > 0.
mod(x, y) == x % y

\* Mutant: night progress is computed before the first trigger too.
calculateNightMode_noGuard(score, u) ==
    LET cyclePosition == mod(score - INVERT_DISTANCE, INVERT_DISTANCE)
        fadeInEnd == TRANSITION_DURATION
        fadeOutStart == NIGHT_WINDOW - TRANSITION_DURATION
    IN  [progress |-> smoothstep(0, fadeInEnd, cyclePosition, u)
                      * smoothstep(NIGHT_WINDOW, fadeOutStart, cyclePosition, u),
         cycleCount |-> score \div INVERT_DISTANCE]

\* progress in 1e-6, cycleCount an integer.
calculateNightMode(score, u) ==
    LET isAfterFirstTrigger == score >= INVERT_DISTANCE
        cyclePosition == mod(score - INVERT_DISTANCE, INVERT_DISTANCE)
        fadeInEnd == TRANSITION_DURATION
        fadeOutStart == NIGHT_WINDOW - TRANSITION_DURATION
        nightProgress ==
            IF isAfterFirstTrigger
            THEN smoothstep(0, fadeInEnd, cyclePosition, u)
                 * smoothstep(NIGHT_WINDOW, fadeOutStart, cyclePosition, u)
            ELSE 0
        nightCount == score \div INVERT_DISTANCE
    IN  [progress |-> nightProgress, cycleCount |-> nightCount]

(***************************************************************************)
(* The state machine.                                                      *)
(***************************************************************************)
NoProbe == [fn |-> "none"]

InitialStored ==
    {<<>>} \cup {toString(n) : n \in {0, MaxStoredHi}}

GameInit ==
    /\ options = [gameSpeed |-> GAME_SPEED_START, trexState |-> WAITING,
                  jumpOffsetY |-> 0, score |-> 0,
                  hiScore |-> getHighScore(localStorage), distanceRan |-> 0]
    /\ uniforms = [uniformDistanceRan |-> 0, uniformTRexState |-> WAITING,
                   uniformJumpOffsetY |-> 0, uniformScore |-> 0,
                   uniformHiScore |-> getHighScore(localStorage)]
    /\ controls = [jumping |-> FALSE, ducking |-> FALSE, jumpVelocity |-> 0,
                   reachedMinHeight |-> FALSE, speedDrop |-> FALSE,
                   jumpOffsetY |-> 0]
    /\ distanceRan = 0
    /\ lastCollisionCheckTime = 0
    /\ elapsedTime = 0
    /\ readbacks = <<>>
    /\ lastOp = [name |-> "init", from |-> WAITING, awaitingRestart |-> FALSE,
                 failed |-> FALSE]

Init ==
    /\ localStorage \in InitialStored
    /\ GameInit
    /\ probe = NoProbe

Apply(w) ==
    /\ options' = w.o
    /\ uniforms' = w.u
    /\ controls' = w.c
    /\ distanceRan' = w.d
    /\ localStorage' = w.ls

\* The trace of a step: the handler, the trexState it found, whether a
\* crash continuation has run with no gameRestart after it, and whether a
\* detection cycle has failed.
RestartOps == {"keyRestart", "clickRestart"}

Did(name) ==
    lastOp' = [name |-> name,
               from |-> options.trexState,
               awaitingRestart |->
                   IF name = "resolveTrue" THEN TRUE
                   ELSE IF name \in RestartOps THEN FALSE
                   ELSE lastOp.awaitingRestart,
               failed |-> lastOp.failed \/ name = "reject"]

KeyDownJump ==
    /\ Apply(onKeyDownJump(World))
    /\ Did(IF options.trexState = CRASHED THEN "keyRestart" ELSE "keyDownJump")
    /\ UNCHANGED <<lastCollisionCheckTime, elapsedTime, readbacks, probe>>

KeyUpJump ==
    /\ Apply(onKeyUpJump(World))
    /\ Did("keyUpJump")
    /\ UNCHANGED <<lastCollisionCheckTime, elapsedTime, readbacks, probe>>

KeyDownDuck ==
    /\ Apply(onKeyDownDuck(World))
    /\ Did("keyDownDuck")
    /\ UNCHANGED <<lastCollisionCheckTime, elapsedTime, readbacks, probe>>

KeyUpDuck ==
    /\ Apply(onKeyUpDuck(World))
    /\ Did("keyUpDuck")
    /\ UNCHANGED <<lastCollisionCheckTime, elapsedTime, readbacks, probe>>

MouseClick ==
    /\ \E hit \in BOOLEAN :
          /\ Apply(onMouseClick(World, hit))
          /\ Did(IF isGameOver(World) /\ hit THEN "clickRestart" ELSE "click")
    /\ UNCHANGED <<lastCollisionCheckTime, elapsedTime, readbacks, probe>>

\* One call of animate (main.ts:278-346), ending in renderer.render.
Animate ==
    \E dt \in Deltas, frame \in AuxFrames :
      LET now == elapsedTime + dt
          w == updateJump(updateGame(World, dt), dt)
          detect == detectionDue(w, now, lastCollisionCheckTime)
      IN  /\ now <= MaxElapsed
          /\ detect => Len(readbacks) < MaxInFlight
          /\ Apply(w)
          /\ elapsedTime' = now
          /\ readbacks' = IF detect THEN Append(readbacks, frame) ELSE readbacks
          /\ lastCollisionCheckTime' =
                IF detect THEN now ELSE lastCollisionCheckTime
          /\ Did("animate")
          /\ UNCHANGED probe

\* A pending readback completes: the scan runs and the continuation with it.
ReadbackResolve ==
    \E i \in 1..Len(readbacks) :
      LET collision == detectCollision(readbacks[i], collisionColor)
      IN  /\ Apply(collisionContinuation(World, collision))
          /\ readbacks' = SubSeq(readbacks, 1, i - 1)
                          \o SubSeq(readbacks, i + 1, Len(readbacks))
          /\ Did(IF collision THEN "resolveTrue" ELSE "resolveFalse")
          /\ UNCHANGED <<lastCollisionCheckTime, elapsedTime, probe>>

\* A pending detection cycle fails: its promise is rejected and the
\* rejection handler runs.
ReadbackReject ==
    \E i \in 1..Len(readbacks) :
      /\ Apply(catchContinuation(World))
      /\ readbacks' = SubSeq(readbacks, 1, i - 1)
                      \o SubSeq(readbacks, i + 1, Len(readbacks))
      /\ Did("reject")
      /\ UNCHANGED <<lastCollisionCheckTime, elapsedTime, probe>>

Next ==
    \/ KeyDownJump
    \/ KeyUpJump
    \/ KeyDownDuck
    \/ KeyUpDuck
    \/ MouseClick
    \/ Animate
    \/ ReadbackResolve
    \/ ReadbackReject

Spec == Init /\ [][Next]_vars

game == <<options, uniforms, controls, distanceRan, lastCollisionCheckTime,
          elapsedTime, localStorage, readbacks, lastOp>>

(***************************************************************************)
(* The pixel scan of detectCollision as a function of the buffer and the   *)
(* collision colour: every buffer of up to MaxPixels pixels over a few     *)
(* bytes, every colour '#rrggbb' over a few bytes.                         *)
(***************************************************************************)
MaxPixels == 2

ScanBytes == {66, 71}
ScanAlphas == {0, 255}
ScanColorBytes == {68, 69}

ScanPixels ==
    {<<r, g, b, a>> : r \in ScanBytes, g \in ScanBytes, b \in ScanBytes,
                      a \in ScanAlphas}

RECURSIVE BuffersOf(_)
BuffersOf(n) ==
    IF n = 0 THEN {<<>>}
    ELSE {p \o rest : p \in ScanPixels, rest \in BuffersOf(n - 1)}

ScanBuffers == UNION {BuffersOf(n) : n \in 0..MaxPixels}

\* new THREE.Color('#rrggbb'): each channel is its byte / 255.
ScanTargets ==
    {<<100 * r, 100 * g, 100 * b>> : r \in ScanColorBytes,
                                    g \in ScanColorBytes, b \in ScanColorBytes}

InitScan ==
    /\ localStorage = <<>>
    /\ GameInit
    /\ probe \in [fn : {"scan"}, buf : ScanBuffers, target : ScanTargets,
                  done : {FALSE}, result : {FALSE}]

Scan ==
    /\ probe.fn = "scan"
    /\ ~probe.done
    /\ probe' = [probe EXCEPT !.done = TRUE,
                              !.result = detectCollision(probe.buf, probe.target)]
    /\ UNCHANGED game

NextScan == Scan

SpecScan == InitScan /\ [][NextScan]_vars

(***************************************************************************)
(* calculateNightMode as a function of the score, evaluated in two frames: *)
(* at a score and at the score one higher.                                 *)
(***************************************************************************)
MaxNightScore == 2200

InitNight ==
    /\ localStorage = <<>>
    /\ GameInit
    /\ probe \in [fn : {"night"}, score : 0..MaxNightScore, done : {FALSE},
                  progress : {0}, cycleCount : {0}, progressNext : {0}]

Night ==
    /\ probe.fn = "night"
    /\ ~probe.done
    /\ \E u \in SmoothstepOutcomes, v \in SmoothstepOutcomes :
          LET r == calculateNightMode(probe.score, u)
              n == calculateNightMode(probe.score + 1, v)
          IN  probe' = [probe EXCEPT !.done = TRUE,
                                     !.progress = r.progress,
                                     !.cycleCount = r.cycleCount,
                                     !.progressNext = n.progress]
    /\ UNCHANGED game

NextNight == Night

SpecNight == InitNight /\ [][NextNight]_vars

(***************************************************************************)
(* tslBackground.ts:61-149, the fragment program at one fragment, as a     *)
(* function of what its sub-shaders sample there.  A sprite sample is      *)
(* [rgb, a]; a mix factor (a sprite alpha, nightProgress) is a multiple of *)
(* 1 / AlphaSteps; a colour channel is a multiple of 1 / One, where        *)
(* One = AlphaSteps ^ MixCount leaves room for every mix of the program.   *)
(***************************************************************************)
AlphaSteps == 4
MixCount == 12

RECURSIVE Pow(_, _)
Pow(b, n) == IF n = 0 THEN 1 ELSE b * Pow(b, n - 1)

One == Pow(AlphaSteps, MixCount)

\* A channel of a '#rrggbb' colour.
ByteChannel(b) == b * (One \div 255)

vec3(x) == <<x, x, x>>

\* mix(a, b, t) = a * (1 - t) + b * t, per channel.
mix(a, b, t) ==
    [i \in 1..3 |-> (a[i] * (AlphaSteps - t) + b[i] * t) \div AlphaSteps]

max(a, b) == IF a >= b THEN a ELSE b

\* Lines 80-96: the background colour under stars, moon, clouds, horizon.
RECURSIVE scenery(_, _)
scenery(colour, layers) ==
    IF layers = <<>> THEN colour
    ELSE scenery(mix(colour, Head(layers).rgb, Head(layers).a), Tail(layers))

\* Lines 100-116: the two composites and the collision flag.
collisionLayers(in) ==
    LET finalColour == scenery(vec3(ByteChannel(247)), in.scenery)
        backLayerColor == mix(finalColour, in.trex.rgb, in.trex.a)
        backLayerWithObstacles ==
            mix(backLayerColor, in.obstacle.rgb, in.obstacle.a)
        frontLayerColor ==
            mix(backLayerWithObstacles, in.trex.rgb, in.trex.a)
        colorDifference ==
            [i \in 1..3 |-> Abs(backLayerWithObstacles[i] - frontLayerColor[i])]
        maxDifference ==
            max(max(colorDifference[1], colorDifference[2]), colorDifference[3])
    IN  [back |-> backLayerWithObstacles,
         front |-> frontLayerColor,
         hasCollision |-> maxDifference > One \div 100]

\* Mutant: the collision colour is put in before the night inversion.
finalColour_tintFirst(in, frontLayerColor, hasCollision) ==
    LET withScore == mix(frontLayerColor, in.score.rgb, in.score.a)
        isCrashed == in.trexState = CRASHED
        withGameOver ==
            IF isCrashed
            THEN mix(mix(withScore, in.gameOver.rgb, in.gameOver.a),
                     in.restart.rgb, in.restart.a)
            ELSE withScore
        tinted == IF hasCollision THEN in.collisionColor ELSE withGameOver
        invertedColour == [i \in 1..3 |-> One - tinted[i]]
    IN  mix(tinted, invertedColour, in.nightProgress)

\* Lines 119-147: UI layers, night inversion, collision colour.
finalColour(in, frontLayerColor, hasCollision) ==
    LET withScore == mix(frontLayerColor, in.score.rgb, in.score.a)
        isCrashed == in.trexState = CRASHED
        withGameOver ==
            IF isCrashed
            THEN mix(mix(withScore, in.gameOver.rgb, in.gameOver.a),
                     in.restart.rgb, in.restart.a)
            ELSE withScore
        invertedColour == [i \in 1..3 |-> One - withGameOver[i]]
        night == mix(withGameOver, invertedColour, in.nightProgress)
    IN  IF hasCollision THEN in.collisionColor ELSE night

createFragmentShader(in) ==
    LET l == collisionLayers(in)
    IN  [back |-> l.back, front |-> l.front, hasCollision |-> l.hasCollision,
         out |-> finalColour(in, l.front, l.hasCollision)]

\* The fragments checked: sprite greys, white and black texels, at alpha 0,
\* one half and 1; day, dusk and night; running and crashed.
Transparent == [rgb |-> vec3(0), a |-> 0]
SpriteGrey == vec3(ByteChannel(83))
Opaque(rgb) == [rgb |-> rgb, a |-> AlphaSteps]

SpriteColours == {SpriteGrey, vec3(One), vec3(0)}
SpriteAlphas == {0, AlphaSteps \div 2, AlphaSteps}
SpriteSamples == [rgb : SpriteColours, a : SpriteAlphas]
UiSamples == {Transparent, Opaque(SpriteGrey)}
SceneryLayers ==
    {<<Transparent, Transparent, Transparent, Transparent>>,
     <<Opaque(vec3(One)), Transparent, Opaque(SpriteGrey), Transparent>>,
     <<Transparent, Opaque(vec3(One)), Transparent, Opaque(SpriteGrey)>>}
CollisionColours ==
    {vec3(ByteChannel(DefaultCollisionByte)),
     <<One, 0, ByteChannel(DefaultCollisionByte)>>}

Fragments ==
    [scenery : SceneryLayers, trex : SpriteSamples, obstacle : SpriteSamples,
     score : UiSamples, gameOver : UiSamples, restart : UiSamples,
     trexState : {RUNNING, CRASHED}, nightProgress : SpriteAlphas,
     collisionColor : CollisionColours]

InitShader ==
    /\ localStorage = <<>>
    /\ GameInit
    /\ probe \in [fn : {"shader"}, in : Fragments, done : {FALSE},
                  back : {vec3(0)}, front : {vec3(0)},
                  hasCollision : {FALSE}, out : {vec3(0)}]

Shader ==
    /\ probe.fn = "shader"
    /\ ~probe.done
    /\ LET r == createFragmentShader(probe.in)
       IN  probe' = [probe EXCEPT !.done = TRUE,
                                  !.back = r.back,
                                  !.front = r.front,
                                  !.hasCollision = r.hasCollision,
                                  !.out = r.out]
    /\ UNCHANGED game

NextShader == Shader

SpecShader == InitShader /\ [][NextShader]_vars

(***************************************************************************)
(* spritePterodactyl.ts:213-309, the obstacle chosen for a segment.  The   *)
(* hashes fract(sin(segmentIndex * k) * m) are functions of the segment    *)
(* index alone whose values depend on the device's sin; they are tables    *)
(* from segment indices to thousandths of [0, 1), fixed for a run.  A      *)
(* frame evaluates every segment at the current score; the score does not  *)
(* fall between frames.                                                    *)
(***************************************************************************)
MaxSegment == 1
MaxScoreAhead == 2

PTERODACTYL_MIN_SCORE == 450

Segments == 0..MaxSegment

\* Values of fract(...) on both sides of the thresholds 0.4, 0.5 and 0.7.
TypeHashValues == {0, 399, 400, 499, 500, 699, 700, 999}
VariantHashValues == {0, 500, 999}

\* Mutant: the three-way split is used at every score.
pseudoRandomObstacleType_noGate(segmentIndex, currentScore, sinHash) ==
    LET pseudoRandom == sinHash[segmentIndex]
    IN  IF pseudoRandom < 400 THEN 0
        ELSE IF pseudoRandom < 700 THEN 1
        ELSE 2

pseudoRandomObstacleType(segmentIndex, currentScore, sinHash) ==
    LET pseudoRandom == sinHash[segmentIndex]
        pterodactylAvailable == currentScore > PTERODACTYL_MIN_SCORE
    IN  IF pterodactylAvailable
        THEN IF pseudoRandom < 400 THEN 0
             ELSE IF pseudoRandom < 700 THEN 1
             ELSE 2
        ELSE IF pseudoRandom < 500 THEN 0 ELSE 1

\* In thousandths: mod(pseudoRandom * 3, 3).
pseudoRandomObstacleVariant(segmentIndex, sinHash) ==
    LET pseudoRandom == sinHash[segmentIndex]
    IN  (pseudoRandom * 3) % 3000

ObstacleScores ==
    {0} \cup (PTERODACTYL_MIN_SCORE - 1)..(PTERODACTYL_MIN_SCORE + MaxScoreAhead)

InitObstacle ==
    /\ localStorage = <<>>
    /\ GameInit
    /\ probe \in [fn : {"obstacle"},
                  typeHash : [Segments -> TypeHashValues],
                  variantHash : [Segments -> VariantHashValues],
                  score : {0}, frames : {0},
                  obstacleType : {[s \in Segments |-> 0]},
                  obstacleVariant : {[s \in Segments |-> 0]}]

\* One frame of spriteObstacle at a score not below the last frame's.
ObstacleFrame ==
    /\ probe.fn = "obstacle"
    /\ \E currentScore \in {x \in ObstacleScores : x >= probe.score} :
          probe' = [probe EXCEPT
              !.score = currentScore,
              !.frames = IF probe.frames < 2 THEN probe.frames + 1 ELSE 2,
              !.obstacleType =
                  [s \in Segments |->
                      pseudoRandomObstacleType(s, currentScore, probe.typeHash)],
              !.obstacleVariant =
                  [s \in Segments |->
                      pseudoRandomObstacleVariant(s, probe.variantHash)]]
    /\ UNCHANGED game

NextObstacle == ObstacleFrame

SpecObstacle == InitObstacle /\ [][NextObstacle]_vars

(***************************************************************************)
(* part_017: one jump.  The game has been started and startJump has just   *)
(* run on the ground; animate then calls controlsTRex frame after frame    *)
(* with a positive time step, while the jump key may be released and the   *)
(* down key pressed or released between frames.                            *)
(***************************************************************************)
\* The frame times of a jump: a slow frame and one twice as long.
JumpDeltas == {DeltaLong, 2 * DeltaLong}

InitJump ==
    /\ localStorage = <<>>
    /\ probe = NoProbe
    /\ distanceRan = 0
    /\ lastCollisionCheckTime = 0
    /\ elapsedTime = 0
    /\ readbacks = <<>>
    /\ LET w == startJump(onStateChange(
                  [o |-> [gameSpeed |-> GAME_SPEED_START, trexState |-> WAITING,
                          jumpOffsetY |-> 0, score |-> 0, hiScore |-> 0,
                          distanceRan |-> 0],
                   u |-> [uniformDistanceRan |-> 0, uniformTRexState |-> WAITING,
                          uniformJumpOffsetY |-> 0, uniformScore |-> 0,
                          uniformHiScore |-> 0],
                   c |-> [jumping |-> FALSE, ducking |-> FALSE,
                          jumpVelocity |-> 0, reachedMinHeight |-> FALSE,
                          speedDrop |-> FALSE, jumpOffsetY |-> 0],
                   d |-> 0, ls |-> <<>>], RUNNING))
       IN  /\ options = w.o
           /\ uniforms = w.u
           /\ controls = w.c
    /\ lastOp = [name |-> "keyDownJump", from |-> RUNNING,
                 awaitingRestart |-> FALSE, failed |-> FALSE]

\* A frame: main.ts:314-317 with the value controlsTRex returns.
JumpStep ==
    /\ \E dt \in JumpDeltas : Apply(updateJump(World, dt))
    /\ Did("jumpStep")
    /\ UNCHANGED <<lastCollisionCheckTime, elapsedTime, readbacks, probe>>

JumpKeyUp ==
    /\ controls.jumping
    /\ Apply(onKeyUpJump(World))
    /\ Did("keyUpJump")
    /\ UNCHANGED <<lastCollisionCheckTime, elapsedTime, readbacks, probe>>

JumpKeyDownDuck ==
    /\ controls.jumping
    /\ Apply(onKeyDownDuck(World))
    /\ Did("keyDownDuck")
    /\ UNCHANGED <<lastCollisionCheckTime, elapsedTime, readbacks, probe>>

JumpKeyUpDuck ==
    /\ controls.jumping
    /\ Apply(onKeyUpDuck(World))
    /\ Did("keyUpDuck")
    /\ UNCHANGED <<lastCollisionCheckTime, elapsedTime, readbacks, probe>>

NextJump ==
    \/ JumpStep
    \/ JumpKeyUp
    \/ JumpKeyDownDuck
    \/ JumpKeyUpDuck

\* setAnimationLoop keeps calling animate: a frame is never postponed for ever.
SpecJump == InitJump /\ [][NextJump]_vars /\ WF_vars(JumpStep)

(***************************************************************************)
(* part_003:96-132, sampleSprite.  A coordinate of p is in half pixels     *)
(* (1/200 of a world unit), so that spriteWidth / 100 / 2 world units are  *)
(* spriteWidth half pixels; scale is a number of twentieths.  localP =     *)
(* p / scale is kept as the numerator p * ScaleDen over the denominator     *)
(* scale, and compared with a bound by multiplying the bound by scale.     *)
(* The texture lookup is an input: the texel found at textureUV.           *)
(***************************************************************************)
MaxCoord == 14
ScaleDen == 20
STAR_SIZE == 9
DIGIT_WIDTH == 10
DIGIT_HEIGHT == 13
ScoreScale == 19

\* Mutant: the right edge is excluded.
sampleSprite_openRight(texelColor, p, scale, spriteWidth, spriteHeight) ==
    LET halfWidth == spriteWidth
        halfHeight == spriteHeight
        localP == [x |-> p.x * ScaleDen, y |-> p.y * ScaleDen]
        inBounds == /\ localP.x >= -halfWidth * scale
                    /\ localP.x < halfWidth * scale
                    /\ localP.y >= -halfHeight * scale
                    /\ localP.y <= halfHeight * scale
    IN  IF inBounds THEN texelColor ELSE Transparent

sampleSprite(texelColor, p, scale, spriteWidth, spriteHeight) ==
    LET halfWidth == spriteWidth
        halfHeight == spriteHeight
        localP == [x |-> p.x * ScaleDen, y |-> p.y * ScaleDen]
        inBounds == /\ localP.x >= -halfWidth * scale
                    /\ localP.x <= halfWidth * scale
                    /\ localP.y >= -halfHeight * scale
                    /\ localP.y <= halfHeight * scale
    IN  IF inBounds THEN texelColor ELSE Transparent

\* The star sprite at scale 1 and a score digit at scale 0.95 or 1.
SpriteSizes == {<<STAR_SIZE, STAR_SIZE>>, <<DIGIT_WIDTH, DIGIT_HEIGHT>>}
SpriteScales == {ScoreScale, ScaleDen}
Coords == (-MaxCoord)..MaxCoord
Texels == {Opaque(SpriteGrey), [rgb |-> vec3(One), a |-> 1], Transparent}

InitSprite ==
    /\ localStorage = <<>>
    /\ GameInit
    /\ probe \in [fn : {"sprite"}, texelColor : Texels,
                  p : [x : Coords, y : Coords], scale : SpriteScales,
                  size : SpriteSizes, done : {FALSE}, result : {Transparent}]

Sprite ==
    /\ probe.fn = "sprite"
    /\ ~probe.done
    /\ probe' = [probe EXCEPT
                    !.done = TRUE,
                    !.result = sampleSprite(probe.texelColor, probe.p,
                                            probe.scale, probe.size[1],
                                            probe.size[2])]
    /\ UNCHANGED game

NextSprite == Sprite

SpecSprite == InitSprite /\ [][NextSprite]_vars

(***************************************************************************)
(* spritePterodactyl.ts:40-147, CameraAnimation.  cam is the object with   *)
(* the orbit controls' enabled flag: isAnimating, enabled, timeline (the   *)
(* keyframe the looping timeline is at, or NoTimeline for null), and       *)
(* tweens, the remaining time of each return tween of stop() whose         *)
(* onComplete has not run yet, in ticks of 1 / TicksPerSecond seconds.     *)
(* A tween made by gsap.to runs to its end                                 *)
(* unless it is killed; stop() and start() kill the timeline only.         *)
(***************************************************************************)
MaxReturnTweens == 2
TicksPerSecond == 2
ReturnDuration == 2
KeyframeCount == 6
NoTimeline == -1

start(cam) ==
    IF cam.isAnimating THEN cam
    ELSE [cam EXCEPT !.isAnimating = TRUE,
                     !.enabled = FALSE,
                     !.timeline = 0]

stop(cam) ==
    IF ~cam.isAnimating THEN cam
    ELSE [cam EXCEPT !.isAnimating = FALSE,
                     !.timeline = NoTimeline,
                     !.tweens = Append(cam.tweens,
                                       ReturnDuration * TicksPerSecond)]

toggle(cam, enabled) ==
    IF enabled THEN start(cam) ELSE stop(cam)

\* One tick of the gsap ticker: the timeline moves on to its next
\* keyframe, every return tween comes a tick closer to its end, and the
\* onComplete of a tween that ends sets controls.enabled.
RECURSIVE advance(_)
advance(tweens) ==
    IF tweens = <<>> THEN <<>>
    ELSE IF Head(tweens) = 1 THEN advance(Tail(tweens))
    ELSE <<Head(tweens) - 1>> \o advance(Tail(tweens))

tick(cam) ==
    [cam EXCEPT
        !.timeline = IF cam.timeline = NoTimeline THEN NoTimeline
                     ELSE (cam.timeline + 1) % KeyframeCount,
        !.tweens = advance(cam.tweens),
        !.enabled = IF \E i \in 1..Len(cam.tweens) : cam.tweens[i] = 1
                    THEN TRUE
                    ELSE cam.enabled]

\* main.ts:93, 164-169: cameraAnimationEnabled is false, so start() has not
\* run; OrbitControls are enabled when constructed.
InitCamera ==
    /\ localStorage = <<>>
    /\ GameInit
    /\ probe = [fn |-> "camera", op |-> "new", isAnimating |-> FALSE,
                enabled |-> TRUE, timeline |-> NoTimeline, tweens |-> <<>>]

CameraDid(cam, op) ==
    /\ probe.fn = "camera"
    /\ Len(cam.tweens) <= MaxReturnTweens
    /\ probe' = [cam EXCEPT !.op = op]
    /\ UNCHANGED game

CameraStart == CameraDid(start(probe), "start")

CameraStop == CameraDid(stop(probe), "stop")

CameraToggle == \E enabled \in BOOLEAN : CameraDid(toggle(probe, enabled), "toggle")

CameraTick == CameraDid(tick(probe), "tick")

NextCamera ==
    \/ CameraStart
    \/ CameraStop
    \/ CameraToggle
    \/ CameraTick

SpecCamera == InitCamera /\ [][NextCamera]_vars

(***************************************************************************)
(* collisionDetection.ts:109-174, one detection cycle step by step.  sys   *)
(* is the collision system with the renderer it shares with the main       *)
(* render: target is the renderer's render target, meshVisible the debug   *)
(* overlay's visible flag (the mesh exists in debug mode only), cycles the *)
(* detectCollision calls that are waiting at the await of line 129, last   *)
(* what the latest settled call saw when it returned.  cur is the call     *)
(* that is running its synchronous part.                                   *)
(***************************************************************************)
CANVAS == "canvas"
READBACK == "readback"

\* What the auxiliary render can draw: a pixel of the collision colour, or
\* a transparent one.
CycleImages ==
    {<<DefaultCollisionByte, DefaultCollisionByte, DefaultCollisionByte, 255>>,
     <<0, 0, 0, 0>>}

NewCycle ==
    [originalTarget |-> CANVAS, renderDone |-> FALSE, auxTarget |-> CANVAS,
     auxSawMesh |-> FALSE, renderedFirst |-> FALSE, image |-> <<>>,
     transferDone |-> FALSE, pixels |-> <<>>]

\* Mutant: the overlay mesh stays visible for the auxiliary render.
hideMesh_skip(sys) == sys

\* Lines 111-113.
hideMesh(sys) ==
    IF sys.debugMode THEN [sys EXCEPT !.meshVisible = FALSE] ELSE sys

\* Lines 116-119: save the target, render into the readback target, put the
\* saved target back.
renderAuxiliary(sys, image) ==
    LET originalTarget == sys.target
        aimed == [sys EXCEPT !.target = READBACK]
        drawn == [aimed EXCEPT
                     !.cur.originalTarget = originalTarget,
                     !.cur.renderDone = TRUE,
                     !.cur.auxTarget = aimed.target,
                     !.cur.auxSawMesh = aimed.debugMode /\ aimed.meshVisible,
                     !.cur.image = image]
    IN  [drawn EXCEPT !.target = originalTarget]

\* Lines 122-124.
showMesh(sys) ==
    IF sys.debugMode THEN [sys EXCEPT !.meshVisible = TRUE] ELSE sys

\* Lines 127-135: the call of readRenderTargetPixelsAsync; the function
\* waits at the await.
startTransfer(sys) ==
    [sys EXCEPT !.cur.renderedFirst = sys.cur.renderDone,
                !.cycles = Append(sys.cycles,
                                  [sys.cur EXCEPT
                                      !.renderedFirst = sys.cur.renderDone]),
                !.cur = NewCycle]

\* detectCollision up to its await.
detectCollisionStart(sys, image) ==
    startTransfer(showMesh(renderAuxiliary(hideMesh(sys), image)))

RemoveCycle(cycles, i) ==
    SubSeq(cycles, 1, i - 1) \o SubSeq(cycles, i + 1, Len(cycles))

\* The transfer of cycle i ends: its promise resolves with the pixels.
completeTransfer(sys, i) ==
    [sys EXCEPT !.cycles[i].transferDone = TRUE,
                !.cycles[i].pixels = sys.cycles[i].image]

\* Lines 137-173, the rest of the function after the await: the scan and
\* the return.
detectCollisionResume(sys, i) ==
    LET c == sys.cycles[i]
    IN  [sys EXCEPT
            !.cycles = RemoveCycle(sys.cycles, i),
            !.last = [settled |-> "returned",
                      result |-> detectCollision(c.pixels, collisionColor),
                      scannedAfterTransfer |-> c.transferDone,
                      renderedFirst |-> c.renderedFirst,
                      auxSawMesh |-> c.auxSawMesh,
                      auxTarget |-> c.auxTarget,
                      originalTarget |-> c.originalTarget,
                      target |-> sys.target,
                      meshVisible |-> sys.meshVisible]]

\* The transfer of cycle i fails: the promise rejects and the function
\* returns nothing.
detectCollisionReject(sys, i) ==
    [sys EXCEPT !.cycles = RemoveCycle(sys.cycles, i),
                !.last = [settled |-> "rejected"]]

\* collisionDetection.ts:36-72, main.ts:41, 261-269: the overlay mesh is
\* made, visible, when the page is opened with ?debug.
InitCycle ==
    /\ localStorage = <<>>
    /\ GameInit
    /\ \E debugMode \in BOOLEAN :
         probe = [fn |-> "cycle", debugMode |-> debugMode,
                  meshVisible |-> debugMode, target |-> CANVAS,
                  cur |-> NewCycle, cycles |-> <<>>,
                  last |-> [settled |-> "none"]]

CycleDid(sys) ==
    /\ probe' = sys
    /\ UNCHANGED game

CycleStart ==
    /\ probe.fn = "cycle"
    /\ Len(probe.cycles) < MaxInFlight
    /\ \E image \in CycleImages : CycleDid(detectCollisionStart(probe, image))

CycleTransferDone ==
    /\ probe.fn = "cycle"
    /\ \E i \in 1..Len(probe.cycles) :
         /\ ~probe.cycles[i].transferDone
         /\ CycleDid(completeTransfer(probe, i))

CycleResume ==
    /\ probe.fn = "cycle"
    /\ \E i \in 1..Len(probe.cycles) :
         /\ probe.cycles[i].transferDone
         /\ CycleDid(detectCollisionResume(probe, i))

CycleReject ==
    /\ probe.fn = "cycle"
    /\ \E i \in 1..Len(probe.cycles) :
         /\ ~probe.cycles[i].transferDone
         /\ CycleDid(detectCollisionReject(probe, i))

NextCycle ==
    \/ CycleStart
    \/ CycleTransferDone
    \/ CycleResume
    \/ CycleReject

SpecCycle == InitCycle /\ [][NextCycle]_vars

(***************************************************************************)
(* Claims about the game loop, checked under Spec.                         *)
(***************************************************************************)
Frozen ==
    /\ options'.distanceRan = options.distanceRan
    /\ distanceRan' = distanceRan
    /\ options'.score = options.score

\* C1: from the crash continuation until gameRestart runs, distanceRan and
\* score do not change, whatever frames, key events and late readback
\* results come in between.
C1_FrozenUntilRestart ==
    [][(lastOp.awaitingRestart /\ lastOp'.awaitingRestart) => Frozen]_vars

\* C2: at most one detectCollision readback is in flight at any time.
C2_OneReadbackInFlight ==
    Len(readbacks) <= 1

\* C3: a continuation that ran with a collision leaves trexState and its
\* uniform CRASHED and gameSpeed 0; exactly when score > hiScore it sets
\* hiScore and its uniform to score and stores it (what getHighScore reads
\* back is score), otherwise hiScore, its uniform and the stored string are
\* unchanged; so hiScore >= score afterwards.
C3_CrashContinuation ==
    [][lastOp'.name = "resolveTrue" =>
         /\ options'.trexState = CRASHED
         /\ uniforms'.uniformTRexState = CRASHED
         /\ options'.gameSpeed = 0
         /\ IF options.score > options.hiScore
            THEN /\ options'.hiScore = options.score
                 /\ uniforms'.uniformHiScore = options.score
                 /\ getHighScore(localStorage') = options.score
            ELSE /\ options'.hiScore = options.hiScore
                 /\ uniforms'.uniformHiScore = uniforms.uniformHiScore
                 /\ localStorage' = localStorage
         /\ options'.hiScore >= options'.score]_vars

\* A crash that beat the stored high score: the score was written.
C3_Witness ==
    /\ lastOp.name = "resolveTrue"
    /\ options.score >= 1
    /\ options.hiScore = options.score
    /\ localStorage = <<options.score>>

\* C4: gameRestart leaves distanceRan, score and jumpOffsetY 0, gameSpeed
\* GAME_SPEED_START and trexState RUNNING, the uniforms of distanceRan,
\* score, jumpOffsetY and trexState equal to them, and hiScore as it was.
C4_Restart ==
    [][lastOp'.name \in RestartOps =>
         /\ options'.distanceRan = 0
         /\ distanceRan' = 0
         /\ options'.score = 0
         /\ options'.jumpOffsetY = 0
         /\ options'.gameSpeed = GAME_SPEED_START
         /\ options'.trexState = RUNNING
         /\ uniforms'.uniformDistanceRan = 0
         /\ uniforms'.uniformScore = 0
         /\ uniforms'.uniformJumpOffsetY = 0
         /\ uniforms'.uniformTRexState = RUNNING
         /\ options'.hiScore = options.hiScore
         /\ uniforms'.uniformHiScore = uniforms.uniformHiScore
         /\ localStorage' = localStorage]_vars

\* A restart of a game that had scored and set a new high score.
C4_Witness ==
    /\ lastOp.name \in RestartOps
    /\ localStorage = <<1>>
    /\ options.hiScore = 1

\* C5: trexState becomes CRASHED only in a continuation that ran with a
\* collision, and a continuation that ran without one changes no game state.
C5_CrashOnlyByCollision ==
    [][/\ (options'.trexState = CRASHED /\ options.trexState # CRASHED)
            => lastOp'.name = "resolveTrue"
       /\ lastOp'.name = "resolveFalse"
            => UNCHANGED <<options, uniforms, controls, distanceRan,
                           localStorage, lastCollisionCheckTime>>]_vars

\* A readback without collision resolved while the game was running.
C5_Witness ==
    /\ lastOp.name = "resolveFalse"
    /\ lastOp.from \in {RUNNING, JUMPING, DUCKING}
    /\ options.score >= 1

\* C6: a continuation with a collision that finds the game CRASHED already
\* changes none of trexState, gameSpeed, hiScore, the stored high score,
\* distanceRan and score.
C6_CrashIdempotent ==
    [][(lastOp'.name = "resolveTrue" /\ options.trexState = CRASHED) =>
         /\ options' = options
         /\ uniforms' = uniforms
         /\ distanceRan' = distanceRan
         /\ localStorage' = localStorage]_vars

\* A second collision result arrived in a game that was CRASHED.
C6_Witness ==
    /\ lastOp.name = "resolveTrue"
    /\ lastOp.from = CRASHED
    /\ options.score >= 1

UniformsInSync ==
    /\ uniforms.uniformDistanceRan = options.distanceRan
    /\ uniforms.uniformScore = options.score
    /\ uniforms.uniformTRexState = options.trexState
    /\ uniforms.uniformJumpOffsetY = options.jumpOffsetY
    /\ uniforms.uniformHiScore = options.hiScore

\* C8: at the render call that ends animate every uniform equals its
\* options field.
C8_UniformsAtRender ==
    lastOp.name = "animate" => UniformsInSync

\* A frame rendered after a crash that set a new high score.
C8_Witness ==
    /\ lastOp.name = "animate"
    /\ options.trexState = CRASHED
    /\ options.hiScore = 1
    /\ localStorage = <<1>>

\* C9: at the end of every frame and after every restart score is
\* floor(distanceRan * 1.8): score <= 1.8 * distanceRan < score + 1.
C9_ScoreFromDistance ==
    lastOp.name \in {"animate"} \cup RestartOps =>
        /\ options.distanceRan = distanceRan
        /\ options.score * 10000000 <= 18 * options.distanceRan
        /\ 18 * options.distanceRan < (options.score + 1) * 10000000

\* A frame that ended with a positive score.
C9_Witness ==
    /\ lastOp.name = "animate"
    /\ options.score >= 1
    /\ isGameRunning(World)

(***************************************************************************)
(* Claims about the pure functions.                                        *)
(***************************************************************************)
\* Pixel k (from 0) of the buffer is within tolerance of the colour on R, G
\* and B: |byte/255 - channel| < 0.01, that is |100 byte - channel| < 255.
PixelMatches(buf, k, target) ==
    \A c \in 1..3 : Abs(100 * buf[4 * k + c] - target[c]) < 255

\* C7 (under SpecScan): detectCollision returns true exactly when some pixel
\* of the buffer is within 0.01 of the collision colour on each of R, G and
\* B, whatever its alpha; a buffer without such a pixel yields false.
C7_ScanFindsCollisionColor ==
    (probe.fn = "scan" /\ probe.done) =>
        (probe.result <=>
            \E k \in 0..(Len(probe.buf) \div 4 - 1) :
                PixelMatches(probe.buf, k, probe.target))

\* A scan that found its only match in the second pixel, at alpha 0.
C7_Witness ==
    /\ probe.fn = "scan"
    /\ probe.done
    /\ probe.result
    /\ Len(probe.buf) = 8
    /\ ~PixelMatches(probe.buf, 0, probe.target)
    /\ probe.buf[8] = 0

\* C10 (under SpecNight): progress is 0 for every score below 700, and
\* cycleCount is floor(score / 700): (0, 0) at score 0, cycleCount 1 at 700.
C10_NightBeforeFirstTrigger ==
    (probe.fn = "night" /\ probe.done) =>
        /\ probe.score < 700 => probe.progress = 0
        /\ 700 * probe.cycleCount <= probe.score
        /\ probe.score < 700 * (probe.cycleCount + 1)
        /\ probe.score = 0 => (probe.progress = 0 /\ probe.cycleCount = 0)
        /\ probe.score = 700 => probe.cycleCount = 1

\* The night mode was computed at the first trigger.
C10_Witness ==
    /\ probe.fn = "night"
    /\ probe.done
    /\ probe.score = 700
    /\ probe.cycleCount = 1

C12_CollisionColourLast ==
    (probe.fn = "shader" /\ probe.done /\ probe.hasCollision) =>
        probe.out = probe.in.collisionColor

\* A flagged fragment in full night, crashed, under the game-over text.
C12_Witness ==
    /\ probe.fn = "shader"
    /\ probe.done
    /\ probe.hasCollision
    /\ probe.in.nightProgress = AlphaSteps
    /\ probe.in.trexState = CRASHED
    /\ probe.in.gameOver.a = AlphaSteps
    /\ probe.out = probe.in.collisionColor

\* C13 (under SpecShader): where the T-Rex alpha is 0 or the obstacle alpha
\* is 0, the back and front composites are identical and hasCollision is
\* false, for every colour and alpha.
C13_NoOverlapNoCollision ==
    (/\ probe.fn = "shader"
     /\ probe.done
     /\ (probe.in.trex.a = 0 \/ probe.in.obstacle.a = 0)) =>
        /\ probe.back = probe.front
        /\ ~probe.hasCollision

\* C14 (under SpecShader): where an opaque T-Rex pixel and an opaque
\* obstacle pixel both cover the fragment, the composites differ by more
\* than 0.01 in some channel and the fragment is flagged, for every T-Rex
\* and obstacle colour.
C14_OverlapFlagged ==
    (/\ probe.fn = "shader"
     /\ probe.done
     /\ probe.in.trex.a = AlphaSteps
     /\ probe.in.obstacle.a = AlphaSteps) =>
        /\ \E i \in 1..3 : Abs(probe.back[i] - probe.front[i]) > One \div 100
        /\ probe.hasCollision

\* C15 (under SpecObstacle): the obstacle type and variant of a segment
\* index are the same in every frame: from one frame to the next, as the
\* score advances, neither changes for any segment.
C15_SegmentObstacleFixed ==
    [][(probe.fn = "obstacle" /\ probe.frames >= 1) =>
          \A s \in Segments :
              /\ probe'.obstacleType[s] = probe.obstacleType[s]
              /\ probe'.obstacleVariant[s] = probe.obstacleVariant[s]]_vars

\* C16 (under SpecJump): after startJump on the ground, calling
\* controlsTRex again and again with positive time steps lands the jump,
\* whether or not endJump or the speed drop come in between: jumping
\* becomes false, and whenever it is false jumpVelocity is 0 and the
\* returned jumpOffsetY is exactly GROUND_Y; the offset is never negative.
C16_JumpLands ==
    /\ <>(~controls.jumping)
    /\ [](~controls.jumping =>
            /\ controls.jumpVelocity = 0
            /\ controls.jumpOffsetY = GROUND_Y
            /\ options.jumpOffsetY = GROUND_Y)
    /\ [](controls.jumpOffsetY >= 0 /\ options.jumpOffsetY >= 0)

\* A jump cut short by the speed drop has landed, into a duck.
C16_Witness ==
    /\ ~controls.jumping
    /\ lastOp.name = "jumpStep"
    /\ lastOp.from = JUMPING
    /\ options.trexState = DUCKING
    /\ controls.jumpOffsetY = GROUND_Y

\* C17 (under SpecSprite): sampleSprite returns the texel exactly when
\* |localP.x| <= half the sprite width and |localP.y| <= half the sprite
\* height (both inclusive; localP = p / scale, world units = pixels / 100),
\* and transparent black otherwise.
C17_SpriteBoundsInclusive ==
    (probe.fn = "sprite" /\ probe.done) =>
        probe.result =
            IF /\ Abs(probe.p.x) * ScaleDen <= probe.size[1] * probe.scale
               /\ Abs(probe.p.y) * ScaleDen <= probe.size[2] * probe.scale
            THEN probe.texelColor
            ELSE Transparent

\* A fragment exactly on the right edge of a sprite, left of its top edge:
\* the texel is returned.
C17_Witness ==
    /\ probe.fn = "sprite"
    /\ probe.done
    /\ probe.p.x * ScaleDen = probe.size[1] * probe.scale
    /\ probe.p.y * ScaleDen < probe.size[2] * probe.scale
    /\ probe.p.y > 0
    /\ probe.texelColor.a > 0
    /\ probe.result = probe.texelColor

C19_StartKeyDoesNotJump ==
    [][/\ (lastOp'.name = "keyDownJump" /\ options.trexState = WAITING) =>
            /\ options'.trexState = RUNNING
            /\ uniforms'.uniformTRexState = RUNNING
            /\ ~controls'.jumping
            /\ controls'.jumpOffsetY = 0
            /\ options'.jumpOffsetY = 0
       /\ (lastOp'.name = "keyRestart" /\ options.trexState = CRASHED) =>
            /\ World' = gameRestart(resetTRexControls(World))
            /\ options'.trexState = RUNNING
            /\ ~controls'.jumping
            /\ controls'.jumpVelocity = 0
            /\ controls'.jumpOffsetY = 0
            /\ options'.jumpOffsetY = 0]_vars

\* The game was started by the jump key and the T-Rex stands on the ground.
C19_Witness ==
    /\ lastOp.name = "keyDownJump"
    /\ lastOp.from = WAITING
    /\ options.trexState = RUNNING
    /\ ~controls.jumping
    /\ options.jumpOffsetY = 0

\* C20: an ArrowDown keydown or keyup in WAITING or CRASHED never changes
\* trexState.
C20_DownKeyOnlyWhileRunning ==
    [][(/\ lastOp'.name \in {"keyDownDuck", "keyUpDuck"}
        /\ options.trexState \in {WAITING, CRASHED}) =>
            options'.trexState = options.trexState]_vars

\* C22: a detection cycle is started only by a frame in which the game is
\* running (trexState neither WAITING nor CRASHED) and in which more than
\* 0.05 s have passed since the previous cycle was started; none is started
\* in WAITING or CRASHED.
C22_CycleOnlyWhenRunningAndDue ==
    [][Len(readbacks') > Len(readbacks) =>
          /\ lastOp'.name = "animate"
          /\ isGameRunning(World)
          /\ isGameRunning(World')
          /\ options'.trexState \notin {WAITING, CRASHED}
          /\ elapsedTime' - lastCollisionCheckTime > COLLISION_DETECTION_INTERVAL
          /\ lastCollisionCheckTime' = elapsedTime']_vars

\* A second cycle was started while the T-Rex was in the air.
C22_Witness ==
    /\ lastOp.name = "animate"
    /\ lastCollisionCheckTime = elapsedTime
    /\ Len(readbacks) = 2
    /\ options.trexState = JUMPING

\* C23 (under SpecObstacle): the type chosen for a segment is 0 (small
\* cactus), 1 (large cactus) or 2 (pterodactyl), and it is 2 only in a frame
\* whose score is greater than 450: at or below 450 every segment is 0 or 1.
C23_PterodactylGated ==
    (probe.fn = "obstacle" /\ probe.frames >= 1) =>
        \A s \in Segments :
            /\ probe.obstacleType[s] \in {0, 1, 2}
            /\ probe.obstacleType[s] = 2 => probe.score > 450
            /\ probe.score <= 450 => probe.obstacleType[s] \in {0, 1}

\* At score 450 a segment whose hash is in the pterodactyl range of the
\* three-way split is a large cactus.
C23_Witness ==
    /\ probe.fn = "obstacle"
    /\ probe.frames >= 1
    /\ probe.score = 450
    /\ probe.typeHash[0] >= 700
    /\ probe.obstacleType[0] = 1

\* C24: once trexState is CRASHED it stays CRASHED, with gameSpeed 0, until
\* gameRestart runs: no key event and no frame leaves CRASHED.
C24_CrashedUntilRestart ==
    [][(options.trexState = CRASHED /\ lastOp'.name \notin RestartOps) =>
          /\ options'.trexState = CRASHED
          /\ options'.gameSpeed = 0]_vars

\* C25: a collision result of a detection cycle started before a restart
\* does not change the restarted game.  Checked on the step right after a
\* gameRestart, where every pending cycle was started before it: that step
\* is not a continuation that sets trexState to CRASHED.
C25_NoStaleCrash ==
    [][lastOp.name \in RestartOps =>
          ~(lastOp'.name = "resolveTrue" /\ options'.trexState = CRASHED)]_vars

\* C26: after a restart by the key or by a click on the plane the jump flag
\* is false, and the frame after the restart pushes jumpOffsetY = 0 to the
\* shader, also when the crash came in mid-jump.
C26_RestartResetsJump ==
    [][/\ lastOp'.name \in RestartOps => ~controls'.jumping
       /\ (lastOp.name \in RestartOps /\ lastOp'.name = "animate") =>
            uniforms'.uniformJumpOffsetY = 0]_vars

\* C27: whenever the jump flag is set and the game is not CRASHED,
\* trexState is JUMPING.
C27_AirborneIsJumping ==
    (controls.jumping /\ options.trexState # CRASHED) =>
        options.trexState = JUMPING

\* C28: a frame in which the T-Rex lands (controlsTRex clears the jump flag)
\* leaves trexState RUNNING or DUCKING, never JUMPING.
C28_LandingLeavesJumping ==
    [][(lastOp'.name = "animate" /\ controls.jumping /\ ~controls'.jumping) =>
          options'.trexState \in {RUNNING, DUCKING}]_vars

\* C29: startJump during a jump is a no-op: a Space / ArrowUp keydown while
\* the jump flag is set (game started, not crashed) leaves jumpVelocity,
\* jumpOffsetY, reachedMinHeight and speedDrop (all of the controls) as they
\* were and fires no callback (options and uniforms unchanged).
C29_NoDoubleJump ==
    [][(/\ lastOp'.name = "keyDownJump"
        /\ controls.jumping
        /\ options.trexState \notin {WAITING, CRASHED}) =>
          /\ controls' = controls
          /\ options' = options
          /\ uniforms' = uniforms]_vars

\* The jump key was pressed in the air, after the minimum height: the
\* jump goes on with the velocity it had.
C29_Witness ==
    /\ lastOp.name = "keyDownJump"
    /\ lastOp.from = JUMPING
    /\ controls.jumping
    /\ controls.reachedMinHeight
    /\ controls.jumpOffsetY > MIN_JUMP_HEIGHT
    /\ controls.jumpVelocity < INITIAL_JUMP_VELOCITY

\* C30 (under SpecCamera): while CameraAnimation.isRunning is true the
\* orbit controls are disabled, for every sequence of start, stop and
\* toggle calls and completions of stop's return tween.
C30_ControlsOffWhileAnimating ==
    (probe.fn = "camera" /\ probe.isAnimating) => ~probe.enabled

====
